---- MODULE Spec2Model ----
(***************************************************************************)
(* SilverLingua: the token-budgeted conversation buffer (Idearium) and the *)
(* tool-call fragment merge (ToolCall / ToolCalls), as state machines.     *)
(*                                                                         *)
(* Python indices are kept 0-based, as persistent_indices holds them; a    *)
(* TLA+ sequence position is the Python index plus one.  Text is a         *)
(* sequence of characters, a character being a small number.               *)
(***************************************************************************)
EXTENDS Integers, Sequences, FiniteSets, TLC

VARIABLES notions, tokenized_notions, persistent_indices, last, agent,
          tool_calls, chunks, aagent, llm, appended, links

vars == <<notions, tokenized_notions, persistent_indices, last, agent, tool_calls, chunks,
         aagent, llm, appended, links>>

(***************************************************************************)
(* Bounds of the model.                                                    *)
(***************************************************************************)
\* Idearium.max_tokens, the budget the buffer is built with.
max_tokens == 2

\* append, extend and insert are offered while the buffer has fewer entries.
MaxNotions == 3

\* append, extend, insert and replace are offered while the buffer is at most
\* this many tokens over its budget (it gets over it by a failed call).
MaxOver == 0

\* The tool-call fragments one streamed turn delivers.
MaxFragments == 3

\* The tool-call responses a model gives before it answers.
MaxHops == 2

\* The longest text a caller passes in: one token more than the budget.
MaxLen == max_tokens + 1

Alphabet == [i \in 1..MaxLen |-> i]

\* The texts callers pass in: "1", "2", and the oversized "12...".
Contents == {SubSeq(Alphabet, 1, 1), SubSeq(Alphabet, 2, 2), Alphabet}

Roles == {"human", "ai"}

\* Notion(content, role, persistent)
Notion(content, role, persistent) ==
    [content |-> content, role |-> role, persistent |-> persistent]

Inputs == {Notion(c, r, p) : c \in Contents, r \in Roles, p \in BOOLEAN}

\* The one-token entries, used where a call takes a list of entries.
ShortInputs == {n \in Inputs : n.content = SubSeq(Alphabet, 1, 1)}

(***************************************************************************)
(* The tokenizer the buffer is given: one token per character, the token   *)
(* being the character's code point.                                       *)
(***************************************************************************)
encode(text) == [i \in 1..Len(text) |-> text[i] + 48]

decode(tokens) == [i \in 1..Len(tokens) |-> tokens[i] - 48]

(***************************************************************************)
(* Python's list operations and slices.                                    *)
(***************************************************************************)
\* The position a list index denotes: a negative index counts from the end.
PyIndex(n, index) == IF index < 0 THEN index + n ELSE index

\* list.pop(index) and list[index] = x raise IndexError outside this range.
InRange(n, index) == PyIndex(n, index) >= 0 /\ PyIndex(n, index) < n

\* list.insert(index, x): the index is clamped to the list.
ListInsert(s, index, x) ==
    LET n == Len(s)
        j == IF index < 0
             THEN (IF index + n < 0 THEN 0 ELSE index + n)
             ELSE (IF index > n THEN n ELSE index)
    IN  SubSeq(s, 1, j) \o <<x>> \o SubSeq(s, j + 1, n)

\* list.pop(index), for an index in range: the list without that element.
ListPop(s, index) ==
    LET j == PyIndex(Len(s), index)
    IN  SubSeq(s, 1, j) \o SubSeq(s, j + 2, Len(s))

\* list[index] = x, for an index in range.
ListSet(s, index, x) == [s EXCEPT ![PyIndex(Len(s), index) + 1] = x]

\* t[:k], the slice the trim step takes: a negative k drops -k tokens from
\* the end.
SliceTo(t, k) ==
    LET m == IF k >= 0 THEN (IF k > Len(t) THEN Len(t) ELSE k)
             ELSE (IF Len(t) + k < 0 THEN 0 ELSE Len(t) + k)
    IN  SubSeq(t, 1, m)

RECURSIVE SumLen(_)
SumLen(s) == IF s = <<>> THEN 0 ELSE Len(Head(s)) + SumLen(Tail(s))

(***************************************************************************)
(* The Idearium.  `self` is the record of its three mutable fields.        *)
(***************************************************************************)
Self(ns, ts, ps) ==
    [notions |-> ns, tokenized_notions |-> ts, persistent_indices |-> ps,
     max_tokens |-> max_tokens]

\* The same buffer with other contents: tokenizer and max_tokens stay.
With(self, ns, ts, ps) ==
    [self EXCEPT !.notions = ns, !.tokenized_notions = ts, !.persistent_indices = ps]

EmptyIdearium == Self(<<>>, <<>>, {})

\* Idearium.total_tokens
total_tokens(self) == SumLen(self.tokenized_notions)

\* A faulty _non_persistent_indices, blind to persistent_indices: every index.
\* C2 must fail of a buffer that trims by it.
_all_indices(self) == 0 .. Len(self.notions) - 1

\* Idearium._non_persistent_indices
_non_persistent_indices(self) ==
    (0 .. Len(self.notions) - 1) \ self.persistent_indices

\* What a call leaves behind: the buffer, the exception it raised ("none" when
\* it returned), and the steps its trims took.
Outcome(self, err, log) == [self |-> self, err |-> err, log |-> log]

\* One step of _trim: the eviction or the truncation of the entry at `index`.
Step(kind, index, keep, before, after) ==
    [kind |-> kind, index |-> index, keep |-> keep, before |-> before, after |-> after]

\* A faulty pop, which forgets to shift the indices above the popped one.
\* C3 must fail of it.
pop_without_shift(self, index) ==
    With(self, ListPop(self.notions, index),
         ListPop(self.tokenized_notions, index),
         self.persistent_indices \ {index})

\* A faulty pop, which forgets which entries are persistent.  C28 must fail
\* of it.
pop_unpins_all(self, index) ==
    With(self, ListPop(self.notions, index), ListPop(self.tokenized_notions, index), {})

\* A faulty pop, which leaves the cached tokens of the popped entry.  C26 must
\* fail of it.
pop_notions_only(self, index) ==
    With(self, ListPop(self.notions, index), self.tokenized_notions,
         {IF i > index THEN i - 1 ELSE i : i \in self.persistent_indices \ {index}})

\* Idearium.pop, for an index in range: the buffer after the call.
pop(self, index) ==
    With(self, ListPop(self.notions, index),
         ListPop(self.tokenized_notions, index),
         {IF i > index THEN i - 1 ELSE i : i \in self.persistent_indices \ {index}})

\* A faulty replace, which leaves the cached tokens of the entry it replaces.
\* C34 must fail of it.
replaced_keeps_tokens(self, index, notion) ==
    With(self, ListSet(self.notions, index, notion), self.tokenized_notions,
         IF notion.persistent
         THEN self.persistent_indices \cup {index}
         ELSE self.persistent_indices \ {index})

\* Idearium.replace up to its call of _trim, for an index in range.
Replaced(self, index, notion) ==
    With(self, ListSet(self.notions, index, notion),
         ListSet(self.tokenized_notions, index, encode(notion.content)),
         IF notion.persistent
         THEN self.persistent_indices \cup {index}
         ELSE self.persistent_indices \ {index})

\* Idearium.insert up to its call of _trim.
Inserted(self, index, notion) ==
    With(self, ListInsert(self.notions, index, notion),
         ListInsert(self.tokenized_notions, index, encode(notion.content)),
         {IF i >= index THEN i + 1 ELSE i : i \in self.persistent_indices}
             \cup (IF notion.persistent THEN {index} ELSE {}))

\* A faulty append, which puts the new entry in front.  C25 must fail of it.
appended_in_front(self, notion) == Inserted(self, 0, notion)

\* Idearium.append up to its call of _trim, when the entry is not coalesced.
Appended(self, notion) ==
    With(self, Append(self.notions, notion),
         Append(self.tokenized_notions, encode(notion.content)),
         IF notion.persistent
         THEN self.persistent_indices \cup {Len(self.notions)}
         ELSE self.persistent_indices)

\* The truncated entry the trim step builds for the only non-persistent entry.
Trimmed(self, single_index) ==
    LET tokenized_notion == self.tokenized_notions[single_index + 1]
        keep == self.max_tokens - (total_tokens(self) - Len(tokenized_notion))
    IN  Notion(decode(SliceTo(tokenized_notion, keep)),
               self.notions[single_index + 1].role,
               self.notions[single_index + 1].persistent)

(***************************************************************************)
(* Idearium._trim, as the set of outcomes it can have from `self`.         *)
(*                                                                         *)
(* The eviction loop takes "the first" element of a Python set of indices; *)
(* a set has no defined iteration order, so any non-persistent index may   *)
(* be the one popped.                                                      *)
(*                                                                         *)
(* The truncation calls replace, which calls _trim again.  When the        *)
(* replacement leaves the buffer as it was, and over budget, that          *)
(* recursion repeats the same call for ever: Python ends it with a         *)
(* RecursionError.                                                         *)
(***************************************************************************)
RECURSIVE _trim(_, _)
_trim(self, log) ==
    IF total_tokens(self) <= self.max_tokens
    THEN {Outcome(self, "none", log)}
    ELSE LET non_persistent_indices == _non_persistent_indices(self)
         IN  IF Cardinality(non_persistent_indices) = 1
             THEN LET single_index == CHOOSE i \in non_persistent_indices : TRUE
                      tokenized_notion == self.tokenized_notions[single_index + 1]
                      keep == self.max_tokens - (total_tokens(self) - Len(tokenized_notion))
                      after == Replaced(self, single_index, Trimmed(self, single_index))
                      step == Step("truncate", single_index, keep, self, after)
                  IN  IF after = self
                      THEN {Outcome(after, "RecursionError", Append(log, step))}
                      ELSE _trim(after, Append(log, step))
             ELSE IF non_persistent_indices = {}
                  THEN {Outcome(self, "PersistentExceed", log)}
                  ELSE UNION {_trim(pop(self, i),
                                    Append(log, Step("pop", i, 0, self, pop(self, i))))
                              : i \in non_persistent_indices}

\* Idearium.replace, for an index in range.
replace(self, index, notion, log) == _trim(Replaced(self, index, notion), log)

\* A faulty coalescing, which puts the new text first.  C4 must fail of it.
combined_content_reversed(old, new) == new \o old

\* The content append gives the coalesced entry.
combined_content(old, new) == old \o new

\* Does append coalesce `notion` into the last entry?
Coalesces(self, notion) ==
    /\ self.notions # <<>>
    /\ self.notions[Len(self.notions)].role = notion.role
    /\ self.notions[Len(self.notions)].persistent = notion.persistent

\* Idearium.append
append(self, notion, log) ==
    IF Coalesces(self, notion)
    THEN replace(self, Len(self.notions) - 1,
                 Notion(combined_content(self.notions[Len(self.notions)].content,
                                         notion.content),
                        notion.role, notion.persistent),
                 log)
    ELSE _trim(Appended(self, notion), log)

\* Idearium.extend: append after append, ended by the first that raises.
RECURSIVE extend(_, _, _)
extend(self, ns, log) ==
    IF ns = <<>>
    THEN {Outcome(self, "none", log)}
    ELSE UNION {IF o.err = "none" THEN extend(o.self, Tail(ns), o.log) ELSE {o}
                : o \in append(self, Head(ns), log)}

\* Idearium.insert
insert(self, index, notion) == _trim(Inserted(self, index, notion), <<>>)

\* Idearium.index: the first occurrence of the entry, -1 standing for the
\* ValueError of list.index.
index_of(self, notion) ==
    IF \E i \in 1..Len(self.notions) : self.notions[i] = notion
    THEN (CHOOSE i \in 1..Len(self.notions) :
              /\ self.notions[i] = notion
              /\ \A j \in 1..(i - 1) : self.notions[j] # notion) - 1
    ELSE -1

\* A faulty validate_notion, without the check of the token length.  C8 must
\* fail of it.
validate_notion_any_length(notion) ==
    IF Len(notion.content) = 0 THEN "EmptyContent" ELSE "none"

\* Idearium.validate_notion: the error it raises, "none" when it accepts.
validate_notion(notion) ==
    IF Len(notion.content) = 0 THEN "EmptyContent"
    ELSE IF Len(encode(notion.content)) > max_tokens THEN "NotionExceeds"
    ELSE "none"

\* Idearium.validate_notions: the error of the first entry that is refused.
RECURSIVE validate_notions(_)
validate_notions(ns) ==
    IF ns = <<>> THEN "none"
    ELSE IF validate_notion(Head(ns)) # "none" THEN validate_notion(Head(ns))
    ELSE validate_notions(Tail(ns))

\* Idearium.__init__: the fields of a buffer built from a list of entries.
Constructed(ns) == Self(ns, [i \in 1..Len(ns) |-> encode(ns[i].content)], {})

(***************************************************************************)
(* ToolCall and ToolCalls.  A fragment's id is a prefix and a number       *)
(* ("call_" 1 is the provider's call_1, "uuid" n the n-th generated        *)
(* placeholder); an optional value is the empty set for None and {v} for   *)
(* v; the extra fields are a function from their names to optional texts.  *)
(***************************************************************************)
Id(prefix, n) == [prefix |-> prefix, n |-> n]

\* The id a provider leaves out.
NoId == Id("none", 0)

\* ToolCall.string_if_none: a missing id becomes a new uuid4, never seen before.
string_if_none(id, fresh) == IF id = NoId THEN Id("uuid", fresh) ELSE id

ToolCallFunction(name, arguments) == [name |-> name, arguments |-> arguments]

ToolCall(id, index, function, extra) ==
    [id |-> id, index |-> index, function |-> function, extra |-> extra]

NoExtra == [k \in {} |-> {}]

\* Python's `a or b` on optional integers: None and 0 are false.
IndexOr(a, b) == IF a = {} \/ a = {0} THEN b ELSE a

\* Python's `a or b` on optional texts: None and "" are false.
TextOr(a, b) == IF a = {} \/ a = {<<>>} THEN b ELSE a

\* The index ToolCall.concat gives the merged call.
merged_index(self, other) == IndexOr(IndexOr(self.index, other.index), {})

\* A faulty choice of the id, which keeps the incoming fragment's.  C24 must
\* fail of it.
merged_id_incoming(self, other) == other.id

\* The id ToolCall.concat gives the merged call: every id is a non-empty text.
merged_id(self, other) == self.id

\* A faulty merge of the functions, which puts the new fragment first.  C9
\* must fail of it.
merged_function_reversed(self, other) ==
    ToolCallFunction(other.function.name \o self.function.name,
                     other.function.arguments \o self.function.arguments)

\* The function ToolCall.concat gives the merged call.
merged_function(self, other) ==
    ToolCallFunction(self.function.name \o other.function.name,
                     self.function.arguments \o other.function.arguments)

\* The extra fields ToolCall.concat gives the merged call.
merged_extra(self, other) ==
    IF self.extra = other.extra
    THEN self.extra
    ELSE [key \in DOMAIN self.extra \cup DOMAIN other.extra |->
            IF key \in DOMAIN self.extra /\ key \in DOMAIN other.extra
            THEN IF self.extra[key] = other.extra[key]
                 THEN self.extra[key]
                 ELSE IF self.extra[key] = {} \/ other.extra[key] = {}
                      THEN TextOr(self.extra[key], other.extra[key])
                      ELSE {x \o y : x \in self.extra[key], y \in other.extra[key]}
            ELSE IF key \in DOMAIN self.extra
                 THEN self.extra[key]
                 ELSE other.extra[key]]

\* ToolCall.concat
ToolCall_concat(self, other) ==
    ToolCall(merged_id(self, other), merged_index(self, other),
             merged_function(self, other), merged_extra(self, other))

\* The test of ToolCalls.concat: does the accumulated call take the new one?
Matches(self_tool_call, tool_call) ==
    \/ self_tool_call.id = tool_call.id
    \/ self_tool_call.index = tool_call.index

\* One round of the outer loop of ToolCalls.concat: every call of `new` that
\* matches takes the fragment; if none does, the fragment is appended.
Merge1(new, tool_call) ==
    IF \E i \in 1..Len(new) : Matches(new[i], tool_call)
    THEN [i \in 1..Len(new) |->
            IF Matches(new[i], tool_call)
            THEN ToolCall_concat(new[i], tool_call)
            ELSE new[i]]
    ELSE Append(new, tool_call)

\* ToolCalls.concat, on the two lists.
RECURSIVE ToolCalls_concat(_, _)
ToolCalls_concat(self, other) ==
    IF other = <<>> THEN self
    ELSE ToolCalls_concat(Merge1(self, Head(other)), Tail(other))

\* tool_calls before the first tool-call chunk of a turn.
None == [none |-> TRUE, list |-> <<>>]

ToolCalls(list) == [none |-> FALSE, list |-> list]

\* Agent.stream: tool_calls = tool_calls and tool_calls.concat(tc_chunks) or tc_chunks
Accumulate(acc, tc_chunks) ==
    IF acc.none THEN ToolCalls(tc_chunks)
    ELSE ToolCalls(ToolCalls_concat(acc.list, tc_chunks))

\* What the provider puts into the fragments of a stream.
ProviderIds == {Id("call_", 1), Id("call_", 2)}

Indexes == {{}, {0}, {1}}

\* The first fragment of a call: its id, its name, the start of its arguments.
HeadFragments ==
    {ToolCall(id, index, ToolCallFunction(<<7>>, arguments), extra) :
        id \in ProviderIds, index \in Indexes, arguments \in {<<>>, <<1>>},
        extra \in {NoExtra, [k \in {"type"} |-> {<<6>>}]}}

\* A later fragment: more of the arguments, with the id or without it (and
\* then with a null "type" too).
TailFragments ==
    {ToolCall(id, index, ToolCallFunction(<<>>, arguments),
              IF id = NoId THEN [k \in {"type"} |-> {}] ELSE NoExtra) :
        id \in ProviderIds \cup {NoId}, index \in Indexes,
        arguments \in {<<1>>, <<2>>}}

\* The fragments delivered so far in the turn.
RECURSIVE Fragments(_)
Fragments(cs) == IF cs = <<>> THEN <<>> ELSE Head(cs) \o Fragments(Tail(cs))

\* ToolCalls.model_validate_json on a chunk: each fragment without an id
\* gets a new one.
Validated(raw, seen) ==
    [j \in 1..Len(raw) |-> [raw[j] EXCEPT !.id = string_if_none(raw[j].id, seen + j)]]

Receives(raw) ==
    LET tc_chunks == Validated(raw, Len(Fragments(chunks)))
    IN  /\ Len(Fragments(chunks)) + Len(raw) <= MaxFragments
        /\ tool_calls' = Accumulate(tool_calls, tc_chunks)
        /\ chunks' = Append(chunks, tc_chunks)
        /\ UNCHANGED <<notions, tokenized_notions, persistent_indices, last, agent, aagent, llm, appended, links>>

\* Agent.stream receives a tool-call chunk of one fragment.
StreamChunk == \E f \in HeadFragments \cup TailFragments : Receives(<<f>>)

\* Agent.stream receives a tool-call chunk of two fragments.
StreamChunk2 ==
    \E f \in HeadFragments, g \in HeadFragments :
       f.extra = NoExtra /\ g.extra = NoExtra /\ Receives(<<f, g>>)

\* Agent.stream is called again: a new turn starts with no tool calls.
NewTurn ==
    /\ chunks # <<>>
    /\ tool_calls' = None
    /\ chunks' = <<>>
    /\ UNCHANGED <<notions, tokenized_notions, persistent_indices, last, agent, aagent, llm, appended, links>>

(***************************************************************************)
(* The Agent: its tools, and the texts it writes into the buffer.  A text  *)
(* is a sequence of numbers; the JSON of a list of calls is, call after    *)
(* call, the id (prefix and number), the index, and the name and the       *)
(* arguments, each after its length.  In the arguments 1 is an opening     *)
(* brace, 2 a closing one, and any other number a member of the object.    *)
(***************************************************************************)
\* MockModel.max_tokens, the budget of the buffer an Agent makes for itself.
model_max_tokens == 100

PrefixCode(prefix) == IF prefix = "call_" THEN 1 ELSE IF prefix = "uuid" THEN 2 ELSE 0

PrefixOf(code) == IF code = 1 THEN "call_" ELSE IF code = 2 THEN "uuid" ELSE "none"

IndexCode(index) == IF index = {} THEN 0 ELSE (CHOOSE v \in index : TRUE) + 1

IndexOf(code) == IF code = 0 THEN {} ELSE {code - 1}

\* json.dumps of one call of tool_calls.model_dump(exclude_none=True).
dump_call(tool_call) ==
    <<PrefixCode(tool_call.id.prefix), tool_call.id.n, IndexCode(tool_call.index),
      Len(tool_call.function.name)>>
        \o tool_call.function.name
        \o <<Len(tool_call.function.arguments)>>
        \o tool_call.function.arguments

\* json.dumps of the list of calls.
RECURSIVE json_dumps(_)
json_dumps(list) ==
    IF list = <<>> THEN <<>> ELSE dump_call(Head(list)) \o json_dumps(Tail(list))

\* The calls a JSON text lists, as the provider wrote them.
RECURSIVE json_calls(_)
json_calls(text) ==
    IF Len(text) < 5 THEN <<>>
    ELSE LET n == text[4]
             m == text[5 + n]
         IN  <<ToolCall(IF text[1] = 0 THEN NoId ELSE Id(PrefixOf(text[1]), text[2]),
                        IndexOf(text[3]),
                        ToolCallFunction(SubSeq(text, 5, 4 + n),
                                         SubSeq(text, 6 + n, 5 + n + m)),
                        NoExtra)>>
                 \o json_calls(SubSeq(text, 6 + n + m, Len(text)))

\* ToolCalls.model_validate_json('{"list": ' + content + "}"): `seen` ids were
\* generated before.
model_validate_json(content, seen) == Validated(json_calls(content), seen)

\* A registered Tool: its name, and the parameters of its function.
Tool(name, parameters, required) ==
    [name |-> name, parameters |-> parameters, required |-> required]

\* The tools of the Agent: mock_tool_function(x), and a function of no
\* parameters.
tools == <<Tool(<<7>>, {3}, {3}), Tool(<<8>>, {}, {})>>

\* Agent._find_tool: the first tool of that name, or none.
_find_tool(name) ==
    IF \E i \in DOMAIN tools : tools[i].name = name
    THEN {tools[CHOOSE i \in DOMAIN tools :
                   /\ tools[i].name = name
                   /\ \A j \in 1 .. i - 1 : tools[j].name # name]}
    ELSE {}

\* json.loads of the arguments: the members of the object, or JSONDecodeError.
json_loads(text) ==
    IF /\ Len(text) >= 2
       /\ text[1] = 1
       /\ text[Len(text)] = 2
       /\ \A i \in 2 .. Len(text) - 1 : text[i] \notin {1, 2}
    THEN [ok |-> TRUE, keys |-> {text[i] : i \in 2 .. Len(text) - 1}]
    ELSE [ok |-> FALSE, keys |-> {}]

\* The keyword arguments _use_tools calls the tool with: none when the
\* arguments did not parse.
tc_function_response(tool_call) ==
    IF json_loads(tool_call.function.arguments).ok
    THEN json_loads(tool_call.function.arguments).keys
    ELSE {}

\* Python binds the keyword arguments to the function's parameters, or raises
\* TypeError.
Binds(tool, kwargs) == tool.required \subseteq kwargs /\ kwargs \subseteq tool.parameters

\* What Tool.__call__ returns: json.dumps of the function's result.
ToolResult == <<4>>

ErrorName == <<5>>

ToolNotFound == <<6>>

\* The JSON of a tool response: tool_call_id, name and content.
dump_response(id, name, content) ==
    <<PrefixCode(id.prefix), id.n, Len(name)>> \o name \o <<Len(content)>> \o content

\* The tool_call_ids of the responses a text holds, one after the other.
RECURSIVE response_ids(_)
response_ids(text) ==
    IF Len(text) < 4 THEN <<>>
    ELSE LET n == text[3]
             m == text[4 + n]
         IN  <<Id(PrefixOf(text[1]), text[2])>>
                 \o response_ids(SubSeq(text, 5 + n + m, Len(text)))

\* The response to a call whose tool is found and returns.
ToolResponse(tool_call) ==
    Notion(dump_response(tool_call.id, tool_call.function.name, ToolResult),
           "TOOL_RESPONSE", FALSE)

\* A "Tool not found" response that does not say which call it answers.
not_found_without_id(tool_call) ==
    Notion(dump_response(NoId, ErrorName, ToolNotFound), "TOOL_RESPONSE", FALSE)

\* The response to a call whose tool is not found.
NotFoundResponse(tool_call) ==
    Notion(dump_response(tool_call.id, ErrorName, ToolNotFound), "TOOL_RESPONSE", FALSE)

\* What _use_tools leaves: the responses, the ids of the calls whose tool was
\* invoked, and the exception it raised ("none" when it returned).
Used(responses, invoked, err) ==
    [responses |-> responses, invoked |-> invoked, err |-> err]

\* Agent._use_tools, from the call `list` starts with, `used` being the work
\* done on the calls before it.
RECURSIVE _use_tools(_, _)
_use_tools(list, used) ==
    IF list = <<>> THEN used
    ELSE LET tool_call == Head(list)
             tool == _find_tool(tool_call.function.name)
         IN  IF tool # {}
             THEN IF Binds(CHOOSE t \in tool : TRUE, tc_function_response(tool_call))
                  THEN _use_tools(Tail(list),
                                  Used(Append(used.responses, ToolResponse(tool_call)),
                                       Append(used.invoked, tool_call.id), "none"))
                  ELSE Used(used.responses, Append(used.invoked, tool_call.id),
                            "TypeError")
             ELSE _use_tools(Tail(list),
                             Used(Append(used.responses, NotFoundResponse(tool_call)),
                                  used.invoked, "none"))

\* A comparison of roles that never finds a tool call.
no_tool_call(response) == response.role = "TOOL_CALLS"

\* The role compared with the wrong member of ChatRole.
tool_response_role(response) == response.role = "TOOL_RESPONSE"

\* Notion.chat_role == ChatRole.TOOL_CALL
IsToolCall(response) == response.role = "TOOL_CALL"

\* Agent._process_messages on a string: one HUMAN entry.
_process_messages(messages) == <<Notion(messages, "HUMAN", FALSE)>>

\* No call of the model's API is running.
NoCall == [pc |-> "idle", is_async |-> FALSE, input |-> <<>>, retries |-> 0,
           entered |-> [input |-> <<>>, retries |-> 0], failures |-> 0,
           attempts |-> 0, out |-> <<>>, err |-> "none", first |-> <<>>]

\* One thing the Agent did, or was given, in turn `turn` of a call.
Event(kind, turn, ns, ids) == [kind |-> kind, turn |-> turn, notions |-> ns, ids |-> ids]

\* A new Agent: an empty buffer of that budget, and no call running.
Agent(budget) ==
    [pc |-> "idle", idearium |-> [EmptyIdearium EXCEPT !.max_tokens = budget],
     auto_append_response |-> TRUE, messages |-> <<>>, turn |-> 0, depth |-> 0,
     script |-> 0,
     result |-> <<>>, got |-> <<>>, pulled |-> 0, events |-> <<>>,
     tool_calls |-> None, err |-> "none"]

\* The loop of _process_tool_calls over enumerate(tool_calls.list), from
\* position i (counted from 0): a call with another id than "call_..." is
\* popped from the list the loop runs over.
RECURSIVE drop_malformed(_, _)
drop_malformed(list, i) ==
    IF i >= Len(list) THEN list
    ELSE IF list[i + 1].id.prefix # "call_"
         THEN drop_malformed(ListPop(list, i), i + 1)
         ELSE drop_malformed(list, i + 1)

\* The entry _process_tool_calls makes of the calls left.
tc_notion(list) == Notion(json_dumps(list), "TOOL_CALL", FALSE)

Invoked(turn, ids) == [j \in 1 .. Len(ids) |-> Event("invoke", turn, <<>>, <<ids[j]>>)]

\* _process_tool_calls in order: the entry is appended, then _use_tools runs.
tool_events(turn, list, used) ==
    <<Event("append_tool_call", turn, <<tc_notion(list)>>,
            [j \in 1 .. Len(list) |-> list[j].id])>>
        \o Invoked(turn, used.invoked)

(***************************************************************************)
(* Link: a memory with a parent and a list of children.  `links` holds,    *)
(* for every Link, its parent (the empty set for None) and its children.   *)
(* The Links have contents of their own, so that two of them are equal     *)
(* only when they are the same object.                                     *)
(***************************************************************************)
MaxLinks == 3

MaxChildren == 2

Links == 1 .. MaxLinks

\* Link(content=...): parent None, no children.
NoLinks == [parent |-> [c \in Links |-> {}], children |-> [p \in Links |-> <<>>]]

\* list.remove: the list without the first occurrence of x.
ListRemove(s, x) ==
    LET first == CHOOSE i \in DOMAIN s : s[i] = x /\ \A j \in 1 .. i - 1 : s[j] # x
    IN  SubSeq(s, 1, first - 1) \o SubSeq(s, first + 1, Len(s))

(***************************************************************************)
(* The state machine: one buffer, and a record of the last call on it.     *)
(***************************************************************************)
This == Self(notions, tokenized_notions, persistent_indices)

\* What the call returns, None being the empty set: pop returns the entry it
\* took out of the list; remove and the other calls have no return value.
Returned(op, index, err) ==
    IF op = "pop" /\ err = "none"
    THEN {notions[PyIndex(Len(notions), index) + 1]}
    ELSE {}

Call(op, args, index, o) ==
    [op |-> op, args |-> args, index |-> index, err |-> o.err, log |-> o.log,
     ret |-> Returned(op, index, o.err)]

\* The call leaves the buffer of the outcome `o`, and its record.
Leaves(op, args, index, o) ==
    /\ notions' = o.self.notions
    /\ tokenized_notions' = o.self.tokenized_notions
    /\ persistent_indices' = o.self.persistent_indices
    /\ last' = Call(op, args, index, o)

Becomes(op, args, index, o) ==
    /\ Leaves(op, args, index, o)
    /\ UNCHANGED <<agent, tool_calls, chunks, aagent, llm, appended, links>>

\* Room to grow: the guards that keep the model finite.
CanGrow == total_tokens(This) <= max_tokens + MaxOver

CanAdd == CanGrow /\ Len(notions) < MaxNotions

Init ==
    /\ notions = <<>>
    /\ tokenized_notions = <<>>
    /\ persistent_indices = {}
    /\ last = Call("init", <<>>, 0, Outcome(EmptyIdearium, "none", <<>>))
    /\ agent = Agent(model_max_tokens)
    /\ aagent = Agent(model_max_tokens)
    /\ llm = NoCall
    /\ appended = <<>>
    /\ links = NoLinks
    /\ tool_calls = None
    /\ chunks = <<>>

Append_ ==
    /\ CanAdd
    /\ \E notion \in Inputs :
         \E o \in append(This, notion, <<>>) :
            Becomes("append", <<notion>>, 0, o)

Extend ==
    /\ CanAdd
    /\ \E n1 \in ShortInputs, n2 \in ShortInputs :
         \E o \in extend(This, <<n1, n2>>, <<>>) :
            Becomes("extend", <<n1, n2>>, 0, o)

InsertAt(indices) ==
    /\ CanAdd
    /\ \E index \in indices, notion \in Inputs :
         \E o \in insert(This, index, notion) :
            Becomes("insert", <<notion>>, index, o)

PopAt(indices) ==
    \E index \in indices :
       IF InRange(Len(notions), index)
       THEN Becomes("pop", <<notions[PyIndex(Len(notions), index) + 1]>>, index,
                    Outcome(pop(This, index), "none", <<>>))
       ELSE Becomes("pop", <<>>, index, Outcome(This, "IndexError", <<>>))

ReplaceAt(indices) ==
    /\ CanGrow
    /\ \E index \in indices, notion \in Inputs :
         IF InRange(Len(notions), index)
         THEN \E o \in replace(This, index, notion, <<>>) :
                 Becomes("replace", <<notion>>, index, o)
         ELSE Becomes("replace", <<notion>>, index, Outcome(This, "IndexError", <<>>))

\* The calls with a position of the buffer as index.
Insert == InsertAt(0 .. Len(notions))

Pop == PopAt(0 .. Len(notions) - 1)

Replace == ReplaceAt(0 .. Len(notions) - 1)

Remove ==
    \E notion \in {notions[i] : i \in 1..Len(notions)} \cup ShortInputs :
       IF index_of(This, notion) >= 0
       THEN Becomes("remove", <<notion>>, index_of(This, notion),
                    Outcome(pop(This, index_of(This, notion)), "none", <<>>))
       ELSE Becomes("remove", <<notion>>, 0, Outcome(This, "NotInList", <<>>))

\* Idearium(tokenizer, max_tokens, notions): the buffer is built from a list
\* of entries, before any other call, unless the validator refuses an entry.
CtorInputs ==
    ShortInputs \cup {Notion(Alphabet, "human", FALSE), Notion(<<>>, "human", FALSE)}

Construct ==
    /\ last.op = "init"
    /\ \E ns \in {<<>>} \cup {<<n>> : n \in CtorInputs}
                  \cup {<<n1, n2>> : n1 \in CtorInputs, n2 \in CtorInputs} :
          IF validate_notions(ns) = "none"
          THEN Becomes("construct", ns, 0, Outcome(Constructed(ns), "none", <<>>))
          ELSE Becomes("construct", ns, 0, Outcome(This, validate_notions(ns), <<>>))

\* The buffer an Agent starts with, and the calls on it.
Next == Append_ \/ Extend \/ Insert \/ Pop \/ Remove \/ Replace

Spec == Init /\ [][Next]_vars

\* A buffer built from a list of entries, and the calls on it that take a
\* position or an entry.
NextBuilt == Construct \/ Append_ \/ Insert \/ Replace \/ Pop

SpecBuilt == Init /\ [][NextBuilt]_vars

(***************************************************************************)
(* A buffer that is only appended to.  The k-th appended entry is made of  *)
(* characters no other entry has, so that every character of the buffer    *)
(* tells which append brought it; `appended` is the list of the entries    *)
(* given to append so far.                                                 *)
(***************************************************************************)
MaxAppends == 4

\* The texts the k-th append can bring.
Tagged(k) ==
    {[i \in 1..n |-> MaxLen * (k - 1) + i] : n \in 1..MaxLen}

AppendNext ==
    /\ Len(appended) < MaxAppends
    /\ \E content \in Tagged(Len(appended) + 1), role \in Roles, persistent \in BOOLEAN :
         \E o \in append(This, Notion(content, role, persistent), <<>>) :
            /\ Leaves("append", <<Notion(content, role, persistent)>>, 0, o)
            /\ appended' = Append(appended, Notion(content, role, persistent))
            /\ UNCHANGED <<agent, tool_calls, chunks, aagent, llm, links>>

SpecAppends == Init /\ [][AppendNext]_vars

\* The tool-call fragments of streamed turns.
NextMerge == StreamChunk \/ StreamChunk2 \/ NewTurn

SpecMerge == Init /\ [][NextMerge]_vars

\* Fragments with the provider's id, told apart by their arguments.
StableFragments(arguments) ==
    {ToolCall(id, index, ToolCallFunction(<<>>, arguments), NoExtra) :
        id \in ProviderIds, index \in Indexes}

\* The lists of one or two of them.
CallSets(arguments) ==
    {<<f>> : f \in StableFragments(arguments)}
        \cup {<<f, g>> : f \in StableFragments(arguments), g \in StableFragments(arguments)}

\* a.concat(b).concat(c) on three lists of calls.
MergeThree ==
    /\ tool_calls.none
    /\ chunks = <<>>
    /\ \E a \in CallSets(<<1>>), b \in CallSets(<<2>>), c \in CallSets(<<3>>) :
          /\ chunks' = <<a, b, c>>
          /\ tool_calls' = ToolCalls(ToolCalls_concat(ToolCalls_concat(a, b), c))
    /\ UNCHANGED <<notions, tokenized_notions, persistent_indices, last, agent, aagent, llm, appended, links>>

SpecThree == Init /\ [][MergeThree]_vars

(***************************************************************************)
(* Agent.stream, a generator: its body runs from one yield to the next     *)
(* when the consumer pulls, and not at all once the consumer has stopped.  *)
(***************************************************************************)
\* A faulty reading of the flag, which is taken to be set.  C27 must fail of it.
flag_taken_as_set(a) == TRUE

\* generate and stream: if self.auto_append_response
AppendsResponse(a) == a.auto_append_response

AgentBecomes(a) ==
    /\ agent' = a
    /\ UNCHANGED <<notions, tokenized_notions, persistent_indices, last, tool_calls, chunks,
                   aagent, llm, appended, links>>

Raised(a, err) == [a EXCEPT !.pc = "raised", !.err = err]

\* What a model streams: text, and fragments of tool calls.
ContentFragments == {Notion(<<1>>, "AI", FALSE), Notion(<<2>>, "AI", FALSE)}

ToolCallFragments ==
    {ToolCall(Id("call_", 1), {1}, ToolCallFunction(<<8>>, <<>>), NoExtra),
     ToolCall(NoId, {1}, ToolCallFunction(<<>>, <<1, 2>>), NoExtra),
     ToolCall(NoId, {2}, ToolCallFunction(<<8>>, <<1, 2>>), NoExtra)}

StreamFragments ==
    ContentFragments \cup {Notion(json_dumps(<<f>>), "TOOL_CALL", FALSE) : f \in ToolCallFragments}

\* The messages of a call, after _process_messages: a string, or a Notion the
\* caller made persistent.
StreamInputs ==
    {_process_messages(<<1>>),
     <<Notion(<<1>>, "SYSTEM", TRUE)>>,
     <<Notion(<<1, 2>>, "SYSTEM", TRUE)>>}

\* agent.stream(messages): the generator is made, its body has not started.
StartStream ==
    /\ agent.pc = "idle"
    /\ \E auto \in BOOLEAN, budget \in {max_tokens, model_max_tokens},
          messages \in StreamInputs :
          AgentBecomes([Agent(budget) EXCEPT !.pc = "start",
                                             !.auto_append_response = auto,
                                             !.messages = messages])

\* The body up to the loop: the messages go into the buffer, the model is
\* asked for a stream.
StreamBegin ==
    /\ agent.pc = "start"
    /\ \E o \in extend(agent.idearium, agent.messages, <<>>) :
          AgentBecomes(
            IF o.err # "none" THEN Raised([agent EXCEPT !.idearium = o.self], o.err)
            ELSE [agent EXCEPT !.pc = "running", !.idearium = o.self,
                               !.tool_calls = None,
                               !.events = Append(@, Event("extended", agent.turn,
                                                          agent.messages, <<>>))])

\* for r in response_stream: the model hands over the next fragment.
Pull ==
    /\ agent.pc = "running"
    /\ agent.pulled < MaxFragments
    /\ \E r \in StreamFragments :
          AgentBecomes([agent EXCEPT !.pc = "got", !.got = <<r>>, !.pulled = @ + 1,
                                     !.events = Append(@, Event("fragment", agent.turn,
                                                                <<r>>, <<>>))])

\* The body of the loop: a tool-call fragment is merged into tool_calls, any
\* other fragment is appended (if auto_append_response) and yielded.
Handle ==
    /\ agent.pc = "got"
    /\ LET r == agent.got[1]
       IN  IF IsToolCall(r)
           THEN AgentBecomes(
                  [agent EXCEPT !.pc = "running", !.got = <<>>,
                                !.tool_calls =
                                    Accumulate(@, model_validate_json(r.content,
                                                                      agent.pulled))])
           ELSE \E o \in (IF AppendsResponse(agent)
                          THEN append(agent.idearium, r, <<>>)
                          ELSE {Outcome(agent.idearium, "none", <<>>)}) :
                   AgentBecomes(
                     IF o.err # "none"
                     THEN Raised([agent EXCEPT !.idearium = o.self], o.err)
                     ELSE [agent EXCEPT !.pc = "yielded", !.got = <<>>,
                                        !.idearium = o.self,
                                        !.events = Append(@, Event("yield", agent.turn,
                                                                   <<r>>, <<>>))])

\* The consumer pulls again.
Resume ==
    /\ agent.pc = "yielded"
    /\ AgentBecomes([agent EXCEPT !.pc = "running"])

\* The consumer stops pulling: the generator is closed where it yielded.
Cancel ==
    /\ agent.pc = "yielded"
    /\ AgentBecomes([agent EXCEPT !.pc = "cancelled"])

\* The model's stream ends.
Exhausted ==
    /\ agent.pc = "running"
    /\ AgentBecomes([agent EXCEPT !.pc = "exhausted",
                                  !.events = Append(@, Event("exhausted", agent.turn,
                                                             <<>>, <<>>))])

\* Tool calls processed while the loop is still running.
InsideLoop == agent.pc = "running" /\ ~agent.tool_calls.none

\* The statements after the loop run as a `finally` would: also when the
\* generator is closed.
AfterLoopOrClosed == agent.pc \in {"exhausted", "cancelled"}

\* The statements after the loop are reached when the loop has ended.
AfterLoop == agent.pc = "exhausted"

\* After the loop: _process_tool_calls on the calls of the turn, and
\* the stream of the next turn on their responses.
ProcessToolCalls ==
    /\ AfterLoop
    /\ LET list == drop_malformed(agent.tool_calls.list, 0)
           used == _use_tools(list, Used(<<>>, <<>>, "none"))
       IN  IF agent.tool_calls.none \/ list = <<>>
           THEN AgentBecomes([agent EXCEPT !.pc = "done"])
           ELSE \E o \in append(agent.idearium, tc_notion(list), <<>>) :
                   AgentBecomes(
                     IF o.err # "none"
                     THEN Raised([agent EXCEPT !.idearium = o.self], o.err)
                     ELSE IF used.err # "none"
                     THEN Raised([agent EXCEPT !.idearium = o.self,
                                               !.events = @ \o tool_events(agent.turn,
                                                                           list, used)],
                                 used.err)
                     ELSE [agent EXCEPT !.pc = "start", !.idearium = o.self,
                                        !.messages = used.responses,
                                        !.turn = @ + 1,
                                        !.events = @ \o tool_events(agent.turn, list, used)])

NextStream ==
    StartStream \/ StreamBegin \/ Pull \/ Handle \/ Resume \/ Cancel \/ Exhausted
        \/ ProcessToolCalls

SpecStream == Init /\ [][NextStream]_vars

(***************************************************************************)
(* Agent.generate: a call of itself for every tool-call response of the    *)
(* model, each returning through its caller.                               *)
(***************************************************************************)
\* What a model answers in the end.
Answers == {Notion(<<1>>, "AI", FALSE), Notion(<<2>>, "AI", FALSE)}

Asks(n, name, arguments) ==
    ToolCall(Id("call_", n), {}, ToolCallFunction(name, arguments), NoExtra)

\* The calls of a tool-call response: of a tool that is registered, with the
\* arguments it takes, or of a tool that is not.
WellFormedCalls ==
    {<<Asks(1, <<8>>, <<1, 2>>)>>,
     <<Asks(1, <<7>>, <<1, 3, 2>>)>>,
     <<Asks(1, <<9>>, <<1, 2>>)>>,
     <<Asks(1, <<7>>, <<1, 3, 2>>), Asks(2, <<8>>, <<1, 2>>)>>,
     <<Asks(1, <<9>>, <<1, 2>>), Asks(2, <<8>>, <<1, 2>>)>>}

\* Calls with arguments that are no JSON.
UnparsableCalls ==
    {<<Asks(1, <<7>>, <<1, 3>>)>>,
     <<Asks(1, <<8>>, <<1, 3>>)>>,
     <<Asks(1, <<8>>, <<>>)>>,
     <<Asks(1, <<9>>, <<1, 2>>), Asks(2, <<7>>, <<3>>)>>}

\* agent.generate(messages), the model being about to give `k` tool-call
\* responses before its answer.
StartGenerate ==
    /\ agent.pc = "idle"
    /\ \E auto \in BOOLEAN, k \in 0 .. MaxHops :
          AgentBecomes([Agent(model_max_tokens) EXCEPT
                           !.pc = "call", !.auto_append_response = auto,
                           !.script = k, !.messages = _process_messages(<<1>>)])

\* generate, up to the call of the model: the messages go into the buffer.
GenerateExtend ==
    /\ agent.pc = "call"
    /\ \E o \in extend(agent.idearium, agent.messages, <<>>) :
          AgentBecomes(
            IF o.err # "none" THEN Raised([agent EXCEPT !.idearium = o.self], o.err)
            ELSE [agent EXCEPT !.pc = "model", !.idearium = o.self,
                               !.events = Append(@, Event("extended", agent.turn,
                                                          agent.messages, <<>>))])

\* _process_generation on a tool-call response: the response is appended, its
\* tools are used, and generate is called on their responses.
ToolHop(response) ==
    \E o \in append(agent.idearium, response, <<>>) :
       LET list == model_validate_json(response.content, 0)
           used == _use_tools(list, Used(<<>>, <<>>, "none"))
           asked == Event("response", agent.turn, <<response>>,
                          [j \in 1 .. Len(list) |-> list[j].id])
       IN  AgentBecomes(
             IF o.err # "none"
             THEN Raised([agent EXCEPT !.idearium = o.self], o.err)
             ELSE IF used.err # "none"
             THEN Raised([agent EXCEPT !.idearium = o.self,
                                       !.events = @ \o <<asked>>
                                                    \o Invoked(agent.turn, used.invoked)],
                         used.err)
             ELSE [agent EXCEPT !.pc = "call", !.idearium = o.self,
                                !.messages = used.responses,
                                !.turn = @ + 1, !.depth = @ + 1, !.script = @ - 1,
                                !.events = @ \o <<asked>>
                                             \o Invoked(agent.turn, used.invoked)
                                             \o <<Event("responses", agent.turn,
                                                        used.responses, <<>>)>>])

\* The model responds, and _process_generation looks at the response.
ModelGenerates(calls) ==
    /\ agent.pc = "model"
    /\ \E response \in (IF agent.script > 0 THEN {tc_notion(list) : list \in calls}
                        ELSE Answers) :
          IF IsToolCall(response)
          THEN ToolHop(response)
          ELSE AgentBecomes([agent EXCEPT !.pc = "unwind", !.result = <<response>>,
                                          !.events = Append(@, Event("response", agent.turn,
                                                                     <<response>>, <<>>))])

\* generate returns to its caller: the result is put into the buffer if
\* auto_append_response.
GenerateReturn ==
    /\ agent.pc = "unwind"
    /\ \E o \in (IF AppendsResponse(agent)
                 THEN extend(agent.idearium, agent.result, <<>>)
                 ELSE {Outcome(agent.idearium, "none", <<>>)}) :
          AgentBecomes(
            IF o.err # "none" THEN Raised([agent EXCEPT !.idearium = o.self], o.err)
            ELSE [agent EXCEPT !.pc = IF agent.depth = 0 THEN "returned" ELSE "unwind",
                               !.idearium = o.self,
                               !.depth = IF agent.depth = 0 THEN 0 ELSE @ - 1])

NextGenerate ==
    StartGenerate \/ GenerateExtend \/ ModelGenerates(WellFormedCalls) \/ GenerateReturn

SpecGenerate == Init /\ [][NextGenerate]_vars

\* The same with a model that may write arguments that are no JSON.
NextArguments ==
    StartGenerate \/ GenerateExtend
        \/ ModelGenerates(WellFormedCalls \cup UnparsableCalls) \/ GenerateReturn

SpecArguments == Init /\ [][NextArguments]_vars

\* generate runs on: no step of it waits for anything but the model.
SpecGenerateFair == SpecGenerate /\ WF_vars(NextGenerate)

\* An Agent on which either stream or generate is called.
NextAgent == NextStream \/ NextArguments

SpecAgent == Init /\ [][NextAgent]_vars

(***************************************************************************)
(* Agent.agenerate and Agent.astream, run by a second Agent that is given  *)
(* what the first was given: the same call, the same outputs of the model, *)
(* the same consumer.  It takes a step when the first has taken one.       *)
(***************************************************************************)
AsyncBecomes(a) ==
    /\ aagent' = a
    /\ UNCHANGED <<notions, tokenized_notions, persistent_indices, last, agent, tool_calls,
                   chunks, llm, appended, links>>

\* The response model.generate gave last, which model.agenerate gives too.
LastResponse ==
    LET given == {j \in DOMAIN agent.events : agent.events[j].kind = "response"}
    IN  agent.events[CHOOSE j \in given : \A i \in given : i <= j].notions[1]

\* Results are appended whatever the flag says.
append_always(a) == TRUE

\* if self.auto_append_response
AutoAppend(a) == a.auto_append_response

\* agent.astream(messages): the asynchronous generator is made.
AStartStream ==
    /\ aagent.pc = "idle"
    /\ agent.pc = "start" /\ agent.turn = 0
    /\ AsyncBecomes([Agent(agent.idearium.max_tokens) EXCEPT
                        !.pc = "start",
                        !.auto_append_response = agent.auto_append_response,
                        !.messages = agent.messages])

\* astream up to the loop.
AStreamBegin ==
    /\ aagent.pc = "start"
    /\ \E o \in extend(aagent.idearium, aagent.messages, <<>>) :
          AsyncBecomes(
            IF o.err # "none" THEN Raised([aagent EXCEPT !.idearium = o.self], o.err)
            ELSE [aagent EXCEPT !.pc = "running", !.idearium = o.self,
                                !.tool_calls = None,
                                !.events = Append(@, Event("extended", aagent.turn,
                                                           aagent.messages, <<>>))])

\* async for r in response_stream: the fragment the model streamed.
APull ==
    /\ aagent.pc = "running"
    /\ agent.pc = "got"
    /\ LET r == agent.got[1]
       IN  AsyncBecomes([aagent EXCEPT !.pc = "got", !.got = <<r>>, !.pulled = @ + 1,
                                       !.events = Append(@, Event("fragment", aagent.turn,
                                                                  <<r>>, <<>>))])

\* The body of the loop of astream.
AHandle ==
    /\ aagent.pc = "got"
    /\ LET r == aagent.got[1]
       IN  IF IsToolCall(r)
           THEN AsyncBecomes(
                  [aagent EXCEPT !.pc = "running", !.got = <<>>,
                                 !.tool_calls =
                                     Accumulate(@, model_validate_json(r.content,
                                                                       aagent.pulled))])
           ELSE \E o \in (IF AutoAppend(aagent)
                          THEN append(aagent.idearium, r, <<>>)
                          ELSE {Outcome(aagent.idearium, "none", <<>>)}) :
                   AsyncBecomes(
                     IF o.err # "none"
                     THEN Raised([aagent EXCEPT !.idearium = o.self], o.err)
                     ELSE [aagent EXCEPT !.pc = "yielded", !.got = <<>>,
                                         !.idearium = o.self,
                                         !.events = Append(@, Event("yield", aagent.turn,
                                                                    <<r>>, <<>>))])

\* The consumer of astream pulls again, as that of stream did.
AResume ==
    /\ aagent.pc = "yielded"
    /\ agent.pc = "running"
    /\ AsyncBecomes([aagent EXCEPT !.pc = "running"])

\* The consumer of astream stops, as that of stream did.
ACancel ==
    /\ aagent.pc = "yielded"
    /\ agent.pc = "cancelled"
    /\ AsyncBecomes([aagent EXCEPT !.pc = "cancelled"])

\* The model's asynchronous stream ends where its stream ended.
AExhausted ==
    /\ aagent.pc = "running"
    /\ agent.pc = "exhausted"
    /\ AsyncBecomes([aagent EXCEPT !.pc = "exhausted",
                                   !.events = Append(@, Event("exhausted", aagent.turn,
                                                              <<>>, <<>>))])

\* astream after the loop.
AProcessToolCalls ==
    /\ aagent.pc = "exhausted"
    /\ LET list == drop_malformed(aagent.tool_calls.list, 0)
           used == _use_tools(list, Used(<<>>, <<>>, "none"))
       IN  IF aagent.tool_calls.none \/ list = <<>>
           THEN AsyncBecomes([aagent EXCEPT !.pc = "done"])
           ELSE \E o \in append(aagent.idearium, tc_notion(list), <<>>) :
                   AsyncBecomes(
                     IF o.err # "none"
                     THEN Raised([aagent EXCEPT !.idearium = o.self], o.err)
                     ELSE IF used.err # "none"
                     THEN Raised([aagent EXCEPT !.idearium = o.self,
                                                !.events = @ \o tool_events(aagent.turn,
                                                                            list, used)],
                                 used.err)
                     ELSE [aagent EXCEPT !.pc = "start", !.idearium = o.self,
                                         !.messages = used.responses,
                                         !.turn = @ + 1,
                                         !.events = @ \o tool_events(aagent.turn, list,
                                                                     used)])

\* await agent.agenerate(messages)
AStartGenerate ==
    /\ aagent.pc = "idle"
    /\ agent.pc = "call" /\ agent.turn = 0
    /\ AsyncBecomes([Agent(agent.idearium.max_tokens) EXCEPT
                        !.pc = "call",
                        !.auto_append_response = agent.auto_append_response,
                        !.script = agent.script,
                        !.messages = agent.messages])

\* agenerate up to the call of the model.
AGenerateExtend ==
    /\ aagent.pc = "call"
    /\ \E o \in extend(aagent.idearium, aagent.messages, <<>>) :
          AsyncBecomes(
            IF o.err # "none" THEN Raised([aagent EXCEPT !.idearium = o.self], o.err)
            ELSE [aagent EXCEPT !.pc = "model", !.idearium = o.self,
                                !.events = Append(@, Event("extended", aagent.turn,
                                                           aagent.messages, <<>>))])

\* _process_generation(responses, True) on a tool-call response, and the
\* coroutine of agenerate it returns, awaited.
AToolHop(response) ==
    \E o \in append(aagent.idearium, response, <<>>) :
       LET list == model_validate_json(response.content, 0)
           used == _use_tools(list, Used(<<>>, <<>>, "none"))
           asked == Event("response", aagent.turn, <<response>>,
                          [j \in 1 .. Len(list) |-> list[j].id])
       IN  AsyncBecomes(
             IF o.err # "none"
             THEN Raised([aagent EXCEPT !.idearium = o.self], o.err)
             ELSE IF used.err # "none"
             THEN Raised([aagent EXCEPT !.idearium = o.self,
                                        !.events = @ \o <<asked>>
                                                     \o Invoked(aagent.turn, used.invoked)],
                         used.err)
             ELSE [aagent EXCEPT !.pc = "call", !.idearium = o.self,
                                 !.messages = used.responses,
                                 !.turn = @ + 1, !.depth = @ + 1, !.script = @ - 1,
                                 !.events = @ \o <<asked>>
                                              \o Invoked(aagent.turn, used.invoked)
                                              \o <<Event("responses", aagent.turn,
                                                         used.responses, <<>>)>>])

\* await self.model.agenerate(...), and _process_generation on its response.
AModelGenerates ==
    /\ aagent.pc = "model"
    /\ IF IsToolCall(LastResponse)
       THEN AToolHop(LastResponse)
       ELSE AsyncBecomes([aagent EXCEPT !.pc = "unwind", !.result = <<LastResponse>>,
                                        !.events = Append(@, Event("response", aagent.turn,
                                                                   <<LastResponse>>, <<>>))])

\* agenerate returns to the coroutine that awaits it.
AGenerateReturn ==
    /\ aagent.pc = "unwind"
    /\ \E o \in (IF AutoAppend(aagent)
                 THEN extend(aagent.idearium, aagent.result, <<>>)
                 ELSE {Outcome(aagent.idearium, "none", <<>>)}) :
          AsyncBecomes(
            IF o.err # "none" THEN Raised([aagent EXCEPT !.idearium = o.self], o.err)
            ELSE [aagent EXCEPT !.pc = IF aagent.depth = 0 THEN "returned" ELSE "unwind",
                                !.idearium = o.self,
                                !.depth = IF aagent.depth = 0 THEN 0 ELSE @ - 1])

\* The asynchronous Agent has done what the synchronous one has.
Level == aagent = agent

SyncStep ==
    /\ Level
    /\ NextStream \/ NextArguments
    /\ agent'.idearium.max_tokens = model_max_tokens

AsyncStep ==
    /\ ~Level
    /\ \/ AStartStream \/ AStreamBegin \/ APull \/ AHandle \/ AResume \/ ACancel
       \/ AExhausted \/ AProcessToolCalls
       \/ AStartGenerate \/ AGenerateExtend \/ AModelGenerates \/ AGenerateReturn

NextBoth == SyncStep \/ AsyncStep

SpecBoth == Init /\ [][NextBoth]_vars

(***************************************************************************)
(* Model._call and Model._acall on an API that fails its first calls.      *)
(* `llm` is the call that is running: the input and the retry counter it   *)
(* holds now and those it was entered with, the number of calls the API    *)
(* fails before it answers, the number of calls made of it, what the call  *)
(* returned or raised, and the outcome of the synchronous call that ran    *)
(* before it on the same arguments.                                        *)
(***************************************************************************)
RetryLimit == 3

MaxFailures == 5

Message(role, content) == [role |-> role, content |-> content]

\* The requests _format_request makes of a chat.
CallInputs ==
    {<<Message("user", "question")>>,
     <<Message("system", "rules"), Message("user", "question")>>,
     <<Message("user", "question"), Message("assistant", "answer")>>,
     <<Message("system", "rules")>>}

\* The API's answer to a request.
Response(input) == [to |-> input]

\* Does the API fail the next call made of it?
ApiFails(call) == call.attempts < call.failures

\* The position of the last user message of the request, if it has one.
LastHuman(inp) ==
    {i \in DOMAIN inp :
        inp[i].role = "user" /\ \A j \in (i + 1) .. Len(inp) : inp[j].role # "user"}

\* OpenAIModel._retry_call: the request it tries again with.
_retry_input(input, e) ==
    LET inp == IF LastHuman(input) = {} THEN input
               ELSE SubSeq(input, 1, CHOOSE i \in LastHuman(input) : TRUE)
    IN  Append(inp, Message("system", e))

\* A faulty test of the counter, which lets one more retry through.  C29 must
\* fail of it.
retries_above_limit(retries) == retries > RetryLimit

\* if retries >= 3: raise e
retries_exhausted(retries) == retries >= RetryLimit

CallBecomes(call) ==
    /\ llm' = call
    /\ UNCHANGED <<notions, tokenized_notions, persistent_indices, last, agent, tool_calls,
                   chunks, aagent, appended, links>>

\* What the caller of _call or _acall gets.
CallOutcome(call) == [pc |-> call.pc, out |-> call.out, err |-> call.err]

Finished(call) == call.pc \in {"returned", "raised"}

\* model._call(input, retries)
_call ==
    /\ llm.pc = "idle"
    /\ \E input \in CallInputs, retries \in 0 .. RetryLimit, failures \in 0 .. MaxFailures :
          CallBecomes([NoCall EXCEPT !.pc = "try", !.input = input, !.retries = retries,
                                     !.entered = [input |-> input, retries |-> retries],
                                     !.failures = failures])

\* await model._acall(input, retries), on the arguments of the _call that
\* has ended and on an API that fails as it did.
_acall ==
    /\ Finished(llm)
    /\ ~llm.is_async
    /\ CallBecomes([NoCall EXCEPT !.pc = "try", !.is_async = TRUE,
                                  !.input = llm.entered.input,
                                  !.retries = llm.entered.retries,
                                  !.entered = llm.entered,
                                  !.failures = llm.failures,
                                  !.first = <<CallOutcome(llm)>>])

\* _common_call_logic, the try block: out = api_call(messages=input).  The
\* api_call of _call calls the API; the api_call of _acall is an async def,
\* and calling it makes a coroutine without running anything, which is
\* returned as `out`.
Try ==
    /\ llm.pc = "try"
    /\ CallBecomes(
         IF llm.is_async THEN [llm EXCEPT !.pc = "await"]
         ELSE IF ApiFails(llm)
         THEN [llm EXCEPT !.pc = "except", !.attempts = @ + 1, !.err = "APIError"]
         ELSE [llm EXCEPT !.pc = "returned", !.attempts = @ + 1,
                          !.out = <<Response(llm.input)>>])

\* _common_call_logic, the except block.
Except ==
    /\ llm.pc = "except"
    /\ CallBecomes(IF retries_exhausted(llm.retries)
                   THEN [llm EXCEPT !.pc = "raised"]
                   ELSE [llm EXCEPT !.pc = "retry"])

\* OpenAIModel._retry_call, up to its call of _common_call_logic.
_retry_call ==
    /\ llm.pc = "retry"
    /\ CallBecomes([llm EXCEPT !.pc = "try", !.input = _retry_input(@, llm.err),
                               !.retries = @ + 1, !.err = "none"])

\* _acall: return await result.  The coroutine runs here, outside the try
\* block of _common_call_logic.
Await ==
    /\ llm.pc = "await"
    /\ CallBecomes(
         IF ApiFails(llm)
         THEN [llm EXCEPT !.pc = "raised", !.attempts = @ + 1, !.err = "APIError"]
         ELSE [llm EXCEPT !.pc = "returned", !.attempts = @ + 1,
                          !.out = <<Response(llm.input)>>])

NextCall == _call \/ _acall \/ Try \/ Except \/ _retry_call \/ Await

SpecCall == Init /\ [][NextCall]_vars

(***************************************************************************)
(* Link.add_child and Link.remove_child on a few Links.                    *)
(***************************************************************************)
LinksBecome(l) ==
    /\ links' = l
    /\ UNCHANGED <<notions, tokenized_notions, persistent_indices, last, agent, tool_calls,
                   chunks, aagent, llm, appended>>

\* self.add_child(child)
add_child ==
    \E self \in Links, child \in Links :
       /\ Len(links.children[self]) < MaxChildren
       /\ LinksBecome([links EXCEPT !.children[self] = Append(@, child),
                                    !.parent[child] = {self}])

\* self.remove_child(child): list.remove raises ValueError, before anything
\* is changed, when the child is not in the list.
remove_child ==
    \E self \in Links, child \in Links :
       IF \E i \in DOMAIN links.children[self] : links.children[self][i] = child
       THEN LinksBecome([links EXCEPT !.children[self] = ListRemove(@, child),
                                      !.parent[child] = {}])
       ELSE LinksBecome(links)

NextLinks == add_child \/ remove_child

SpecLinks == Init /\ [][NextLinks]_vars

(***************************************************************************)
(* Properties of the buffer.                                               *)
(***************************************************************************)
MutatingOps == {"append", "extend", "insert", "replace", "pop", "remove"}

\* The tokens of the entries whose persistent flag is set.
RECURSIVE PersistentTokens(_, _)
PersistentTokens(ns, ts) ==
    IF ns = <<>> THEN 0
    ELSE (IF Head(ns).persistent THEN Len(Head(ts)) ELSE 0)
         + PersistentTokens(Tail(ns), Tail(ts))

\* The first n of the tokens t, for any n: none of them when n <= 0.
FirstTokens(t, n) ==
    SubSeq(t, 1, IF n < 0 THEN 0 ELSE IF n > Len(t) THEN Len(t) ELSE n)

\* Does the call take an entry of more than max_tokens tokens?
Oversized(args) == \E k \in DOMAIN args : Len(encode(args[k].content)) > max_tokens

BufferUnchanged ==
    /\ notions' = notions
    /\ tokenized_notions' = tokenized_notions
    /\ persistent_indices' = persistent_indices

\* C1: budget invariant.  After every mutating call (append, extend, insert,
\* replace, pop, remove) that returns normally, total_tokens <= max_tokens.
C1_BudgetInvariant ==
    (last.op \in MutatingOps /\ last.err = "none")
        => total_tokens(This) <= max_tokens

C4_CoalescingExact ==
    [][(/\ last'.op = "append"
        /\ last'.err = "none"
        /\ Coalesces(This, last'.args[1]))
       => (/\ Len(notions') = Len(notions)
           /\ notions'[Len(notions')].content =
                 notions[Len(notions)].content \o last'.args[1].content)]_vars

\* C4 as amended: the coalesced content is exact, and the buffer keeps its
\* length, when the buffer with the new text is within max_tokens; an entry
\* of another role or flag that fits becomes the new last entry; and no
\* append makes the buffer longer by more than one entry.
C4_Coalescing ==
    [][last'.op = "append" =>
         LET e == last'.args[1]
             fits == total_tokens(This) + Len(encode(e.content)) <= max_tokens
         IN  /\ Len(notions') <= Len(notions) + 1
             /\ (Coalesces(This, e) /\ fits) =>
                   /\ last'.err = "none"
                   /\ Len(notions') = Len(notions)
                   /\ notions'[Len(notions')] =
                         Notion(notions[Len(notions)].content \o e.content,
                                e.role, e.persistent)
                   /\ \A i \in 1 .. Len(notions) - 1 : notions'[i] = notions[i]
             /\ (~ Coalesces(This, e) /\ fits) =>
                   /\ last'.err = "none"
                   /\ notions' = Append(notions, e)]_vars

\* C4's case: an append was coalesced into the last entry, within the budget.
C4_Witness ==
    /\ last.op = "append"
    /\ last.err = "none"
    /\ last.log = <<>>
    /\ notions # <<>>
    /\ Len(notions[Len(notions)].content) > Len(last.args[1].content)
    /\ notions[Len(notions)].content # <<1, 1>>
    /\ notions[Len(notions)].content # <<2, 2>>

\* C5: eviction order.  Each eviction of _trim removes the non-persistent
\* entry with the lowest index.
C5_EvictsOldest ==
    \A k \in DOMAIN last.log :
       last.log[k].kind = "pop" =>
          \A j \in _non_persistent_indices(last.log[k].before) :
             last.log[k].index <= j

\* C6: prefix truncation.  When _trim truncates the only non-persistent entry,
\* its content becomes the decoding of the first
\* max_tokens - (total_tokens - len(its tokens)) tokens of its encoding, its
\* role and flag stay, no other entry changes, and the trim stops there: the
\* buffer is then within its budget, so that the _trim replace calls returns
\* at once.
C6_PrefixTruncation ==
    \A k \in DOMAIN last.log :
       last.log[k].kind = "truncate" =>
          LET b == last.log[k].before
              a == last.log[k].after
              i == last.log[k].index + 1
          IN  /\ Len(a.notions) = Len(b.notions)
              /\ a.notions[i].content =
                    decode(FirstTokens(b.tokenized_notions[i], last.log[k].keep))
              /\ a.notions[i].role = b.notions[i].role
              /\ a.notions[i].persistent = b.notions[i].persistent
              /\ \A j \in DOMAIN b.notions : j # i => a.notions[j] = b.notions[j]
              /\ total_tokens(a) <= max_tokens

\* C7: budget exhaustion.  An append, insert or replace after which the
\* persistent entries alone exceed max_tokens fails with the ValueError
\* "Persistent notions exceed max_tokens".
C7_BudgetExhaustion ==
    (/\ last.op \in {"append", "insert", "replace"}
     /\ PersistentTokens(notions, tokenized_notions) > max_tokens)
        => last.err = "PersistentExceed"

WithId(list, id) == {i \in DOMAIN list : list[i].id = id}

\* The arguments of the fragments, one after the other.
RECURSIVE Arguments(_)
Arguments(fs) ==
    IF fs = <<>> THEN <<>> ELSE Head(fs).function.arguments \o Arguments(Tail(fs))

\* Is the turn so far one call streamed in fragments: one fragment a chunk,
\* the provider's id on the first only, the same index on all of them?
OneCallStreamed ==
    /\ \A c \in DOMAIN chunks : Len(chunks[c]) = 1
    /\ Len(chunks) >= 2
    /\ chunks[1][1].id \in ProviderIds
    /\ \A c \in 2 .. Len(chunks) :
          /\ chunks[c][1].id.prefix = "uuid"
          /\ chunks[c][1].index = chunks[1][1].index

\* C9: merge of a fragment with the id of an accumulated call.  When a chunk
\* of one fragment arrives whose id is the id of one accumulated call, that
\* call is replaced by one whose name is old.name + new.name and whose
\* arguments is old.arguments + new.arguments, under the same id; no call is
\* added, and the result holds a single call of that id.
C9_SameIdMerge ==
    [][(/\ ~ tool_calls.none
        /\ chunks' # <<>>
        /\ chunks' = Append(chunks, chunks'[Len(chunks')])
        /\ Len(chunks'[Len(chunks')]) = 1
        /\ Cardinality(WithId(tool_calls.list, chunks'[Len(chunks')][1].id)) = 1)
       => LET new == chunks'[Len(chunks')][1]
              i == CHOOSE j \in WithId(tool_calls.list, new.id) : TRUE
              old == tool_calls.list[i]
          IN  /\ ~ tool_calls'.none
              /\ Len(tool_calls'.list) = Len(tool_calls.list)
              /\ WithId(tool_calls'.list, new.id) = {i}
              /\ tool_calls'.list[i].function.name =
                    old.function.name \o new.function.name
              /\ tool_calls'.list[i].function.arguments =
                    old.function.arguments \o new.function.arguments]_vars

\* C9's case: two fragments of one id, the arguments split between them, were
\* merged into the one call of that id.
C9_Witness ==
    /\ Len(chunks) = 2
    /\ Len(chunks[1]) = 1
    /\ Len(chunks[2]) = 1
    /\ chunks[1][1].id = chunks[2][1].id
    /\ chunks[1][1].function.arguments = <<1>>
    /\ chunks[2][1].function.arguments = <<2>>
    /\ ~ tool_calls.none
    /\ Len(tool_calls.list) = 1
    /\ tool_calls.list[1].function.arguments = <<1, 2>>

\* C10: index fallback.  A call streamed in k >= 2 fragments, the provider's
\* id on the first only and the same index (0 included) on all, is merged into
\* exactly one call, with the first fragment's id and the arguments of all k
\* fragments in the order of their arrival.
C10_IndexFallback ==
    OneCallStreamed =>
       /\ ~ tool_calls.none
       /\ Len(tool_calls.list) = 1
       /\ tool_calls.list[1].id = chunks[1][1].id
       /\ tool_calls.list[1].function.arguments = Arguments(Fragments(chunks))

(***************************************************************************)
(* The Agent's turns.                                                      *)
(***************************************************************************)
WellFormed(id) == id.prefix = "call_"

\* The ids of the calls an entry of role TOOL_CALL lists.
CallIds(notion) ==
    LET list == json_calls(notion.content) IN {list[j].id : j \in DOMAIN list}

\* C11: finalization drops every malformed fragment: no call whose id does
\* not start with "call_" is in the tool-call Entry the Agent appends, and the
\* tool of no such call is invoked, wherever the malformed fragments stood.
C11_DropsMalformed ==
    \A j \in DOMAIN agent.events :
       LET e == agent.events[j]
       IN  /\ e.kind = "append_tool_call" =>
                \A id \in CallIds(e.notions[1]) : WellFormed(id)
           /\ e.kind = "invoke" => WellFormed(e.ids[1])

\* The entries a call of generate put into the buffer, as they were given:
\* the messages of every call and every response of the model.
RECURSIVE Transcript(_)
Transcript(events) ==
    IF events = <<>> THEN <<>>
    ELSE (IF Head(events).kind \in {"extended", "response"}
          THEN Head(events).notions ELSE <<>>) \o Transcript(Tail(events))

\* The tool-call responses of the model so far.
Hops == {j \in DOMAIN agent.events :
            agent.events[j].kind = "response" /\ IsToolCall(agent.events[j].notions[1])}

\* The tool-call responses that ask for one tool.
SingleCalls == \A j \in Hops : Len(agent.events[j].ids) = 1

\* C12: generate with tool hops: with auto-append on, and a model that answers
\* with k >= 1 tool-call responses and then an AI response, generate returns
\* that AI Entry, and the Buffer holds the input, each TOOL_CALL Entry followed
\* by its TOOL_RESPONSE Entry, and last the AI Entry, once and as returned.
C12_GenerateWithToolHops ==
    (/\ agent.pc = "returned"
     /\ agent.auto_append_response
     /\ Hops # {}
     /\ SingleCalls)
    => /\ agent.result = agent.events[Len(agent.events)].notions
       /\ ~IsToolCall(agent.result[1])
       /\ agent.idearium.notions = Transcript(agent.events)

\* The latest tool-call response of the model.
LastHop == CHOOSE j \in Hops : \A i \in Hops : i <= j

\* The last n entries of the buffer.
LastEntries(n) ==
    LET b == agent.idearium.notions
    IN  IF n > Len(b) THEN b ELSE SubSeq(b, Len(b) - n + 1, Len(b))

\* C13: one tool-response Entry per call: the n calls of a tool-call response
\* give n TOOL_RESPONSE Entries, in the order of the calls, each with the id of
\* its call, and in the Buffer they are n separate Entries.
C13_OneResponsePerCall ==
    /\ (agent.pc = "call" /\ agent.turn > 0) =>
          LET ids == agent.events[LastHop].ids
          IN  /\ Len(agent.messages) = Len(ids)
              /\ \A i \in DOMAIN ids :
                    /\ agent.messages[i].role = "TOOL_RESPONSE"
                    /\ response_ids(agent.messages[i].content) = <<ids[i]>>
    /\ (agent.pc = "model" /\ agent.turn > 0) =>
          LastEntries(Len(agent.messages)) = agent.messages

\* A fragment of text, as the model streamed it.
IsContent(e) == e.kind = "fragment" /\ e.notions[1].role # "TOOL_CALL"

\* C14: stream pass-through: stream yields every fragment of plain content,
\* in the order of arrival and before it pulls the next fragment, and it never
\* yields a fragment of a tool call.
C14_PassThrough ==
    \A j \in DOMAIN agent.events :
       LET e == agent.events[j]
       IN  /\ IsContent(e) =>
                IF j = Len(agent.events) THEN agent.pc = "got"
                ELSE agent.events[j + 1] = Event("yield", e.turn, e.notions, <<>>)
           /\ e.kind = "yield" =>
                /\ e.notions[1].role # "TOOL_CALL"
                /\ j > 1
                /\ IsContent(agent.events[j - 1])
                /\ agent.events[j - 1].notions = e.notions

\* Two different fragments of text were yielded, and a fragment of a tool
\* call arrived between them.
C14_Witness ==
    \E i, j, k \in DOMAIN agent.events :
       /\ i < j /\ j < k
       /\ agent.events[i].kind = "yield"
       /\ agent.events[j].kind = "fragment" /\ agent.events[j].notions[1].role = "TOOL_CALL"
       /\ agent.events[k].kind = "yield"
       /\ agent.events[i].notions # agent.events[k].notions

\* C15: stream tool ordering: no tool is invoked before the model's stream of
\* the turn has ended; the tool-call Entry is appended before its responses go
\* into the Buffer; and what the stream of the next turn yields comes after all
\* the content of this turn.
C15_ToolOrdering ==
    \A j \in DOMAIN agent.events :
       LET e == agent.events[j]
       IN  /\ e.kind \in {"invoke", "append_tool_call"} =>
                /\ \E i \in 1 .. j - 1 :
                      agent.events[i] = Event("exhausted", e.turn, <<>>, <<>>)
                /\ \A i \in j .. Len(agent.events) :
                      agent.events[i].kind = "fragment" => agent.events[i].turn > e.turn
           /\ (e.kind = "extended" /\ e.turn > 0) =>
                \E i \in 1 .. j - 1 :
                   /\ agent.events[i].kind = "append_tool_call"
                   /\ agent.events[i].turn = e.turn - 1
                   /\ \A k \in DOMAIN e.notions :
                         \E c \in DOMAIN agent.events[i].ids :
                            response_ids(e.notions[k].content) = <<agent.events[i].ids[c]>>
           /\ e.kind = "yield" =>
                \A i \in 1 .. j - 1 : agent.events[i].turn <= e.turn

\* Text was yielded in a turn, a tool was invoked at its end, and the next
\* turn yielded text too.
C15_Witness ==
    \E i, j, k \in DOMAIN agent.events :
       /\ i < j /\ j < k
       /\ agent.events[i].kind = "yield" /\ agent.events[i].turn = 0
       /\ agent.events[j].kind = "invoke" /\ agent.events[j].turn = 0
       /\ agent.events[k].kind = "yield" /\ agent.events[k].turn = 1

\* The buffer's indices are those of its persistent entries, and its tokens
\* those of its contents.
Consistent(self) ==
    /\ Len(self.tokenized_notions) = Len(self.notions)
    /\ \A i \in DOMAIN self.notions :
          self.tokenized_notions[i] = encode(self.notions[i].content)
    /\ self.persistent_indices =
          {i - 1 : i \in {k \in DOMAIN self.notions : self.notions[k].persistent}}

\* C16: cancellation: when the consumer stops pulling at a yield, before the
\* model's stream of the turn has ended, no tool is invoked and no tool-call
\* Entry is appended for that stream, then or later, and the Buffer is within
\* its budget with consistent indices.
C16_Cancellation ==
    /\ [](agent.pc = "cancelled" =>
            /\ \A j \in DOMAIN agent.events :
                  agent.events[j].turn = agent.turn =>
                     agent.events[j].kind \notin {"invoke", "append_tool_call", "exhausted"}
            /\ total_tokens(agent.idearium) <= agent.idearium.max_tokens
            /\ Consistent(agent.idearium))
    /\ [][agent.pc = "cancelled" => agent' = agent]_vars

\* The tokens of the messages and of the text that streamed in.
RECURSIVE Given(_)
Given(events) ==
    IF events = <<>> THEN 0
    ELSE (IF Head(events).kind \in {"extended", "yield"}
          THEN Len(Head(events).notions[1].content) ELSE 0) + Given(Tail(events))

\* The consumer stopped after tool-call fragments had arrived in the turn,
\* with a buffer that had been trimmed to its budget.
C16_Witness ==
    /\ agent.pc = "cancelled"
    /\ ~agent.tool_calls.none
    /\ agent.idearium.max_tokens = max_tokens
    /\ total_tokens(agent.idearium) < Given(agent.events)
    /\ agent.auto_append_response

\* The turn's tool calls have just been processed.
Processed ==
    /\ ~agent.tool_calls.none
    /\ agent.pc = "done" \/ (agent.pc = "start" /\ agent.turn > 0)

\* C17: only-malformed fragments end the turn: when no call with a "call_" id
\* is left after validation, the stream ends with no tool-call Entry, no tool
\* invoked and no further stream; when one is left, the dropped ones do not
\* abort the turn.
C17_OnlyMalformedEndsTurn ==
    Processed =>
       LET list == agent.tool_calls.list
       IN  IF \A j \in DOMAIN list : ~WellFormed(list[j].id)
           THEN /\ agent.pc = "done"
                /\ \A j \in DOMAIN agent.events :
                      agent.events[j].turn = agent.turn =>
                         agent.events[j].kind \notin {"invoke", "append_tool_call"}
           ELSE /\ agent.pc = "start"
                /\ \E j \in DOMAIN agent.events :
                      /\ agent.events[j].kind = "append_tool_call"
                      /\ agent.events[j].turn = agent.turn - 1

\* The calls of the tool-call response at position j of the record.
CallsOf(j) == json_calls(agent.events[j].notions[1].content)

\* The calls among them whose tool is not registered.
Unknown(j) == {c \in DOMAIN CallsOf(j) : \A i \in DOMAIN tools :
                                            tools[i].name # CallsOf(j)[c].function.name}

\* The tool responses made in the turn of position j, and their pushes into
\* the buffer in the next turn.
ResponsesTo(j) ==
    {i \in DOMAIN agent.events :
        \/ /\ agent.events[i].kind = "responses"
           /\ agent.events[i].turn = agent.events[j].turn
        \/ /\ agent.events[i].kind = "extended"
           /\ agent.events[i].turn = agent.events[j].turn + 1}

\* The response to the call at position j was made, and is the message of
\* the next call of generate or already in its buffer.
Fed(j) ==
    /\ ResponsesTo(j) # {}
    /\ \/ agent.pc = "call" /\ agent.turn = agent.events[j].turn + 1
       \/ \E i \in ResponsesTo(j) : agent.events[i].kind = "extended"

\* C18: tool not found: a call of a tool that is not registered raises
\* nothing; it gives a TOOL_RESPONSE Entry with the id of the call and an
\* error message, which is fed into the next turn.
C18_ToolNotFound ==
    \A j \in Hops :
       /\ Unknown(j) = DOMAIN CallsOf(j) => Fed(j)
       /\ \A i \in ResponsesTo(j), c \in Unknown(j) :
             /\ agent.events[i].notions[c] =
                   Notion(dump_response(CallsOf(j)[c].id, ErrorName, ToolNotFound),
                          "TOOL_RESPONSE", FALSE)
             /\ (agent.pc = "call" /\ agent.turn = agent.events[j].turn + 1) =>
                   agent.messages[c] = agent.events[i].notions[c]

\* A call of an unregistered tool was answered, and its response went into
\* the buffer of the next turn.
C18_Witness ==
    \E j \in Hops :
       /\ Unknown(j) # {}
       /\ \E i \in ResponsesTo(j) : agent.events[i].kind = "extended"

\* The calls at position j whose arguments are no JSON.
Unparsable(j) ==
    {c \in DOMAIN CallsOf(j) : ~json_loads(CallsOf(j)[c].function.arguments).ok}

\* C19: argument parse failure: when the arguments of a call are no valid
\* JSON the tool is given no arguments, the turn does not fail, generate does
\* not raise, and a TOOL_RESPONSE Entry for the call is fed into the next turn.
C19_ArgumentParseFailure ==
    \A j \in Hops :
       Unparsable(j) # {} =>
          /\ agent.pc # "raised"
          /\ Fed(j)
          /\ \A i \in ResponsesTo(j), c \in Unparsable(j) :
                /\ agent.events[i].notions[c].role = "TOOL_RESPONSE"
                /\ response_ids(agent.events[i].notions[c].content) = <<CallsOf(j)[c].id>>

\* The calls of generate so far, the caller's and its own.
Calls == {j \in DOMAIN agent.events : agent.events[j].kind = "extended"}

\* The tool-call responses the model has given.
Asked == {j \in DOMAIN agent.events :
             agent.events[j].kind = "response"
                /\ agent.events[j].notions[1].role = "TOOL_CALL"}

C21_SyncAsyncEquivalence ==
    /\ [][aagent' # aagent => aagent' = agent']_vars
    /\ [](~Level => ENABLED AsyncStep)

\* Both calls of generate have returned after a tool hop, and both streams
\* have ended after a turn with tools.
C21_Witness ==
    /\ Level
    /\ \/ agent.pc = "returned" /\ agent.turn > 0 /\ agent.auto_append_response
       \/ agent.pc = "done" /\ agent.turn > 0 /\ agent.auto_append_response

(***************************************************************************)
(* The merge of two lists of calls.                                        *)
(***************************************************************************)
\* A chunk has just been merged into accumulated calls.
Merged ==
    /\ ~tool_calls.none
    /\ chunks' # <<>>
    /\ chunks' = Append(chunks, chunks'[Len(chunks')])

IsPrefix(s, t) == Len(s) <= Len(t) /\ SubSeq(t, 1, Len(s)) = s

\* The call has an id and an index that `others` do not have.
Apart(call, others) ==
    \A j \in DOMAIN others : others[j].id # call.id /\ others[j].index # call.index

Without(list, i) == SubSeq(list, 1, i - 1) \o SubSeq(list, i + 1, Len(list))

\* C22: merge keeps first-seen order: in merge(a, b) every call of a keeps
\* its position, every fragment of b that matches nothing is appended after
\* them in b's order, nothing is removed or moved, the result is at least as
\* long as a, and calls whose id and index no other call has stay separate.
C22_FirstSeenOrder ==
    [][Merged =>
         LET a == tool_calls.list
             b == chunks'[Len(chunks')]
             r == tool_calls'.list
         IN  /\ Len(r) >= Len(a)
             /\ \A i \in DOMAIN a :
                   /\ r[i].id = a[i].id
                   /\ IsPrefix(a[i].function.name, r[i].function.name)
                   /\ IsPrefix(a[i].function.arguments, r[i].function.arguments)
                   /\ Apart(a[i], Without(a, i) \o b) => r[i] = a[i]
             /\ \A i \in DOMAIN b :
                   Apart(b[i], a \o Without(b, i)) =>
                      \E k \in Len(a) + 1 .. Len(r) :
                         /\ r[k] = b[i]
                         /\ \A j \in 1 .. i - 1 :
                               Apart(b[j], a \o Without(b, j)) =>
                                  \E m \in Len(a) + 1 .. k - 1 : r[m] = b[j]]_vars

\* A merge B merge C, the second merge first.
RightMerge == ToolCalls_concat(chunks[1], ToolCalls_concat(chunks[2], chunks[3]))

\* The fragments of the three lists.
Given3 == chunks[1] \o chunks[2] \o chunks[3]

\* Every call has its own index: fragments have the same index exactly when
\* they have the same id.
OwnIndexes ==
    \A i, j \in DOMAIN Given3 :
       (Given3[i].id = Given3[j].id) <=> (Given3[i].index = Given3[j].index)

\* No list holds two fragments of one call.
DistinctWithin ==
    \A c \in DOMAIN chunks :
       \A i, j \in DOMAIN chunks[c] : i # j => chunks[c][i].id # chunks[c][j].id

\* The fragments keep stable ids across the three lists.
StableIds == OwnIndexes /\ DistinctWithin

\* C23: merge associativity: for lists A, B, C whose fragments keep stable
\* ids across the sequence, (A merge B) merge C and A merge (B merge C) are
\* the same list: same calls, same order, same ids, names and arguments.
C23_Associative == (Len(chunks) = 3 /\ StableIds) => tool_calls.list = RightMerge

\* The ids of a list of calls, in its order.
Ids(list) == [i \in DOMAIN list |-> list[i].id]

RECURSIVE Characters(_)
Characters(ns) ==
    IF ns = <<>> THEN <<>>
    ELSE [i \in 1..Len(Head(ns).content) |->
            [character |-> Head(ns).content[i], role |-> Head(ns).role,
             persistent |-> Head(ns).persistent]]
         \o Characters(Tail(ns))

\* Is s what is left of t when some of its elements are taken out?
RECURSIVE IsSubsequence(_, _)
IsSubsequence(s, t) ==
    IF s = <<>> THEN TRUE
    ELSE IF t = <<>> THEN FALSE
    ELSE IF Head(s) = Head(t) THEN IsSubsequence(Tail(s), Tail(t))
    ELSE IsSubsequence(s, Tail(t))

\* C25: buffer ordering.  After any sequence of appends the buffer is an
\* order-preserving subsequence of the appended entries: its characters, with
\* their roles and persistence, are characters of the appended entries in the
\* order of their appends; and every eviction and every truncation of a trim
\* leaves a subsequence of what it found, removing or shortening, never
\* swapping.
C25_BufferOrdering ==
    /\ IsSubsequence(Characters(notions), Characters(appended))
    /\ \A k \in DOMAIN last.log :
          IsSubsequence(Characters(last.log[k].after.notions),
                        Characters(last.log[k].before.notions))

\* C25's case: four appends of which the last made the trim evict an entry and
\* truncate another, and the buffer holds characters of two appends.
C25_Witness ==
    /\ Len(appended) = MaxAppends
    /\ \E k \in DOMAIN last.log : last.log[k].kind = "pop"
    /\ \E k \in DOMAIN last.log : last.log[k].kind = "truncate"
    /\ Len(notions) >= 2
    /\ Len(Characters(notions)) < Len(Characters(appended))

(***************************************************************************)
(* The two lists of the buffer.                                            *)
(***************************************************************************)
\* The buffer has as many cached token lists as entries.
SameLength(self) == Len(self.notions) = Len(self.tokenized_notions)

\* C26: the list of entries and the list of their cached tokens have the same
\* length in every reachable state, after a call that raised too, and in
\* every intermediate state of a trim: before and after each of its evictions
\* and truncations.
C26_ParallelLists ==
    /\ SameLength(This)
    /\ \A k \in DOMAIN last.log :
          SameLength(last.log[k].before) /\ SameLength(last.log[k].after)

\* C26's case: a call on a buffer of entries made the trim evict an entry and
\* then take another step, and entries are left.
C26_Witness ==
    /\ Len(last.log) >= 2
    /\ last.log[1].kind = "pop"
    /\ Len(last.log[1].before.notions) >= 2
    /\ Len(notions) >= 1

(***************************************************************************)
(* The buffer of an Agent that does not append the responses.              *)
(***************************************************************************)
\* The call has ended, or its consumer has stopped it, without a tool call
\* of the model.
EndedWithoutTool ==
    /\ agent.pc \in {"returned", "done", "cancelled"}
    /\ agent.turn = 0
    /\ agent.tool_calls.none

\* The buffer of a new Agent to which the messages alone were given.
OnlyInput ==
    {o.self : o \in extend([EmptyIdearium EXCEPT !.max_tokens = agent.idearium.max_tokens],
                           agent.messages, <<>>)}

\* C27: auto-append off.  When auto_append_response is false, generate and
\* stream put no entry of model content (role AI) into the buffer, in any
\* turn; and when the call has ended without a tool call of the model, the
\* buffer is the buffer before the call with the input entries pushed into
\* it, and nothing else.
C27_AutoAppendOff ==
    ~agent.auto_append_response =>
       /\ \A i \in DOMAIN agent.idearium.notions : agent.idearium.notions[i].role # "AI"
       /\ EndedWithoutTool => agent.idearium \in OnlyInput

\* C27's case: with the flag off, a stream that yielded text has ended, or a
\* generate has returned an answer, without a tool call, and the buffer
\* holds the input.
C27_Witness ==
    /\ ~agent.auto_append_response
    /\ EndedWithoutTool
    /\ agent.idearium.notions # <<>>
    /\ \/ agent.pc = "returned" /\ agent.result # <<>>
       \/ agent.pc = "done" /\ \E k \in DOMAIN agent.events : agent.events[k].kind = "yield"

(***************************************************************************)
(* What pop and remove leave, and what they return.                        *)
(***************************************************************************)
\* The step is a pop or a remove that did not raise.
Removes == last'.op \in {"pop", "remove"} /\ last'.err = "none"

\* The call took the entry at position i (from 0) out of the buffer, and
\* nothing else: the other entries, their cached tokens, their order and
\* their membership of persistent_indices are as before.
TookOut(i) ==
    /\ i \in 0 .. Len(notions) - 1
    /\ notions' = Without(notions, i + 1)
    /\ tokenized_notions' = Without(tokenized_notions, i + 1)
    /\ \A j \in (0 .. Len(notions) - 1) \ {i} :
          (j \in persistent_indices)
             <=> ((IF j > i THEN j - 1 ELSE j) \in persistent_indices')
    /\ last'.op = "remove" =>
          /\ notions[i + 1] = last'.args[1]
          /\ \A j \in 1 .. i : notions[j] # last'.args[1]

C30_AsyncAsSync ==
    (llm.is_async /\ Finished(llm)) => <<CallOutcome(llm)>> = llm.first

(***************************************************************************)
(* Parents and children of Links.                                          *)
(***************************************************************************)
IsChild(c, p) == \E i \in DOMAIN links.children[p] : links.children[p][i] = c

\* C31: parent/child consistency.  After any sequence of add_child and
\* remove_child calls, a Link c is in p.children if and only if c.parent
\* is p.
C31_ParentChild ==
    \A p \in Links, c \in Links : IsChild(c, p) <=> links.parent[c] = {p}

(***************************************************************************)
(* The end of a trim.                                                      *)
(***************************************************************************)
\* C32: every append, insert and replace terminates: the trim loop and the
\* recursion of replace and _trim end either with total_tokens <= max_tokens
\* or with the budget-exhaustion error, and never run on without end (which
\* Python cuts short with a RecursionError).
C32_TrimTerminates ==
    last.op \in {"append", "extend", "insert", "replace"} =>
       \/ last.err = "none" /\ total_tokens(This) <= max_tokens
       \/ last.err = "PersistentExceed"

(***************************************************************************)
(* The set of persistent indices.                                          *)
(***************************************************************************)
\* The positions, from 0, of the entries whose persistent flag is set.
PersistentPositions(ns) == {i - 1 : i \in {k \in DOMAIN ns : ns[k].persistent}}

\* C33: in every reachable state of the buffer, right after its construction
\* from a list of entries too, persistent_indices is exactly the set of the
\* positions 0..len-1 whose entry is persistent: none is missing and no index
\* is out of range.
C33_ExactIndexSet == persistent_indices = PersistentPositions(notions)

(***************************************************************************)
(* The cached tokens.                                                      *)
(***************************************************************************)
\* Every cached token list is the encoding of the content at its position.
Coherent(self) ==
    /\ Len(self.tokenized_notions) = Len(self.notions)
    /\ \A i \in DOMAIN self.notions :
          self.tokenized_notions[i] = encode(self.notions[i].content)
    /\ total_tokens(self) =
          SumLen([i \in DOMAIN self.notions |-> encode(self.notions[i].content)])

\* C34: token cache coherence.  In every reachable state, and before and
\* after every eviction and truncation of a trim, the cached token list at
\* each position is encode of the content of the entry there, so that
\* total_tokens is the number of tokens of the stored contents; also after
\* an append that coalesces and after a truncation.
C34_CacheCoherence ==
    /\ Coherent(This)
    /\ \A k \in DOMAIN last.log :
          Coherent(last.log[k].before) /\ Coherent(last.log[k].after)

\* C34's case: an append was coalesced into the only entry, which the trim
\* then truncated to the budget.
C34_Witness ==
    /\ last.op = "append"
    /\ last.err = "none"
    /\ Len(last.log) = 1
    /\ last.log[1].kind = "truncate"
    /\ Len(last.log[1].before.notions) = 1
    /\ Len(last.log[1].before.notions[1].content) > Len(last.args[1].content)
    /\ Len(notions) = 1
    /\ Len(notions[1].content) = max_tokens

(***************************************************************************)
(* Calls that raise.                                                       *)
(***************************************************************************)
\* C35: failed mutations are atomic.  When an append, an insert or a replace
\* raises, the entries, the cached tokens and persistent_indices are what
\* they were before the call.
C35_FailedCallsAtomic ==
    [][(last'.op \in {"append", "insert", "replace"} /\ last'.err # "none") =>
          /\ notions' = notions
          /\ tokenized_notions' = tokenized_notions
          /\ persistent_indices' = persistent_indices]_vars

(***************************************************************************)
(* The entry an append has just added.                                     *)
(***************************************************************************)
\* C36: append never evicts the entry it has just added.  After append(e)
\* returns normally the buffer is not empty and its last entry has e's role
\* and persistent flag, its content being a prefix of e's content, or of the
\* coalesced content when e was coalesced into the last entry.
C36_AppendKeepsEntry ==
    [][(last'.op = "append" /\ last'.err = "none") =>
          LET e == last'.args[1]
              whole == IF Coalesces(This, e)
                       THEN combined_content(notions[Len(notions)].content, e.content)
                       ELSE e.content
          IN  /\ notions' # <<>>
              /\ notions'[Len(notions')].role = e.role
              /\ notions'[Len(notions')].persistent = e.persistent
              /\ IsPrefix(notions'[Len(notions')].content, whole)]_vars

(***************************************************************************)
(* Entries without content.                                                *)
(***************************************************************************)
\* C37: when the callers give only entries with content, no entry of the
\* buffer has an empty content, in any reachable state: the trim never
\* truncates an entry to no tokens.
C37_NoEmptyContent ==
    \A i \in DOMAIN notions : notions[i].content # <<>>


\* C38: in every state of the Agent's buffer during generate or stream, each
\* TOOL_RESPONSE entry is preceded by a TOOL_CALL entry: the trim never
\* evicts the tool calls and keeps their responses.
C38_ResponseAfterCall ==
    \A i \in DOMAIN agent.idearium.notions :
        agent.idearium.notions[i].role = "TOOL_RESPONSE"
            => \E j \in 1 .. i - 1 :
                  agent.idearium.notions[j].role = "TOOL_CALL"

\* C39: the merge never joins two different calls.  When a chunk of one
\* fragment is merged and no accumulated call has the fragment's id, the
\* fragment is joined to an accumulated call only if both carry an index and
\* the indexes are equal; a fragment with no index, and with another id than
\* the accumulated calls, stays a call of its own.
C39_DifferentCallsApart ==
    [][Merged =>
         LET a == tool_calls.list
             b == chunks'[Len(chunks')]
             r == tool_calls'.list
         IN  (Len(b) = 1 /\ WithId(a, b[1].id) = {}) =>
                /\ Len(r) = Len(a) =>
                      \E i \in DOMAIN a : a[i].index # {} /\ a[i].index = b[1].index
                /\ b[1].index = {} => r = Append(a, b[1])]_vars

\* C40: the merge never duplicates the text of a fragment.  When a chunk is
\* merged into the accumulated calls, each of its fragments goes into exactly
\* one call of the result, so the arguments of the result are as long, in
\* total, as those of the accumulated calls and those of the chunk together.
C40_NoDuplicateText ==
    [][Merged =>
         LET a == tool_calls.list
             b == chunks'[Len(chunks')]
             r == tool_calls'.list
         IN  Len(Arguments(r)) = Len(Arguments(a)) + Len(Arguments(b))]_vars
====
